---- MODULE Spec2Model ----
(***************************************************************************)
(* A model of element_interface/intan_loader.py: the Qt-style string       *)
(* decoder _read_qstring, the header decoder _read_header and the sample   *)
(* conversion loop of load_rhs.                                            *)
(*                                                                         *)
(* Three specifications share the module, one per function:                *)
(*   SpecHeader   _read_header, one action per record it decodes           *)
(*   SpecQString  _read_qstring, called repeatedly on a bounded byte file  *)
(*   SpecLoad     the "Get recording data" loop of load_rhs                *)
(* Each specification leaves the variables of the other two untouched.     *)
(***************************************************************************)
EXTENDS Integers, Sequences, FiniteSets, TLC

VARIABLES
    \* ---- _read_header ----
    hpc,                      \* position in _read_header
    header,                   \* the dict under construction (a function from keys)
    number_of_signal_groups,  \* the int16 read at line 148
    signal_group,             \* loop variable of line 151 (0 before the loop)
    channels_left,            \* iterations of the loop of line 161 still to run
    herr,                     \* message of the exception raised, "" if none
    last_channel,             \* history: the channel record decoded last
    n_records,                \* history: channel records decoded so far
    n_discarded,              \* history: records decoded with channel_enabled = 0
    sum_all_counts,           \* history: sum of signal_group_num_channels, all groups
    sum_live_counts,          \* history: the same over the groups with enabled > 0
                              \*          and a count > 0
    negative_count,           \* history: a signal_group_num_channels < 0 was read
    \* ---- _read_qstring ----
    qpc,                      \* "ready" | "failed"
    fbytes,                   \* the file's bytes
    ftell,                    \* fid.tell()
    qcall,                    \* history: the last call (start, prefix, outcome, result)
    \* ---- load_rhs ----
    lpc,                      \* "loop" | "done" | "failed"
    file_paths,               \* sorted(file_paths): the buffers, in processing order
    stim_step_size,           \* rhs_data["header"]["stim_step_size"]
    next_file,                \* index of the next buffer of the loop of line 279
    signal,                   \* the local variable `signal` (Unbound before assignment)
    recordings,               \* rhs_data["recordings"]
    lerr                      \* exception that ended load_rhs, "" if none

hvars == <<hpc, header, number_of_signal_groups, signal_group, channels_left, herr,
           last_channel, n_records, n_discarded, sum_all_counts, sum_live_counts,
           negative_count>>
qvars == <<qpc, fbytes, ftell, qcall>>
lvars == <<lpc, file_paths, stim_step_size, next_file, signal, recordings, lerr>>
vars  == <<hvars, qvars, lvars>>

\* ------------------------------------------------------------------ bounds
MaxGroups   == 2    \* largest number_of_signal_groups drawn
MaxChannels == 2    \* largest signal_group_num_channels drawn
MaxRecords  == 3    \* channel records decoded in one run
MaxPayload  == 5    \* bytes of the file after its first length prefix
MaxFiles    == 2    \* sample buffers of one load_rhs call
MaxSamples  == 1    \* 16-bit samples of one buffer

\* ------------------------------------------------------------ idle states
\* The values a specification gives to the variables of the other functions.
HeaderIdle ==
    /\ hpc = "idle" /\ header = <<>> /\ number_of_signal_groups = 0
    /\ signal_group = 0 /\ channels_left = 0 /\ herr = ""
    /\ last_channel = <<>> /\ n_records = 0 /\ n_discarded = 0
    /\ sum_all_counts = 0 /\ sum_live_counts = 0 /\ negative_count = FALSE

QStringIdle ==
    /\ qpc = "idle" /\ fbytes = <<>> /\ ftell = 0 /\ qcall = <<>>

LoadIdle ==
    /\ lpc = "idle" /\ file_paths = <<>> /\ stim_step_size = 0 /\ next_file = 0
    /\ signal = <<>> /\ recordings = <<>> /\ lerr = ""

\* =========================================================== _read_header
\* Messages of the exceptions _read_header raises.
BadMagic               == "Unrecognized file type."
UnsupportedSignalClass == "Wrong signal type for the rhs format"
UnknownSignalClass     == "Unknown channel type."
MalformedLength        == "Length too long."
StructError            == "struct.error"

\* The five channel collections and the key of the count field of each.
ChannelCollections ==
    {"amplifier_channels", "board_adc_channels", "board_dac_channels",
     "board_dig_in_channels", "board_dig_out_channels"}

CountKey(coll) == "num_" \o coll

\* int16 values a stream can hold in the fields the decoder branches on.
SignalTypes    == -1 .. 7
EnabledFlags   == {-1, 0, 1}
ChannelCounts  == -1 .. MaxChannels
GroupCounts    == -1 .. MaxGroups
\* float32 values of the stim_step_size field (line 123).
StimStepSizes  == {10, 25}

\* SignalDestination with the two digital branches exchanged.
SignalDestination_swapped(signal_type) ==
    CASE signal_type = 0 -> "amplifier_channels"
      [] signal_type = 1 -> "Wrong signal type for the rhs format"
      [] signal_type = 2 -> "Wrong signal type for the rhs format"
      [] signal_type = 3 -> "board_adc_channels"
      [] signal_type = 4 -> "board_dac_channels"
      [] signal_type = 5 -> "board_dig_out_channels"
      [] signal_type = 6 -> "board_dig_in_channels"
      [] OTHER           -> "Unknown channel type."

\* The if/elif chain of lines 193-211: the collection a signal_type is appended
\* to, or the message of the exception it raises.
SignalDestination(signal_type) ==
    CASE signal_type = 0 -> "amplifier_channels"
      [] signal_type = 1 -> UnsupportedSignalClass
      [] signal_type = 2 -> UnsupportedSignalClass
      [] signal_type = 3 -> "board_adc_channels"
      [] signal_type = 4 -> "board_dac_channels"
      [] signal_type = 5 -> "board_dig_in_channels"
      [] signal_type = 6 -> "board_dig_out_channels"
      [] OTHER           -> UnknownSignalClass

\* `if channel_enabled:` (line 192): Python truth of an int.
ChannelIsEnabled(channel_enabled) == channel_enabled # 0

\* GroupIsRead without the test of the enabled flag.
GroupIsRead_count_only(signal_group_enabled, signal_group_num_channels) ==
    signal_group_num_channels > 0

\* `(signal_group_num_channels > 0) and (signal_group_enabled > 0)` (line 160).
GroupIsRead(signal_group_enabled, signal_group_num_channels) ==
    (signal_group_num_channels > 0) /\ (signal_group_enabled > 0)

\* AppendChannel with the trigger appended for every classified channel.
AppendChannel_trigger_always(h, dest, new_channel, new_trigger_channel) ==
    [k \in DOMAIN h |->
        IF k = dest THEN Append(h[k], new_channel)
        ELSE IF k = "spike_triggers" THEN Append(h[k], new_trigger_channel)
        ELSE h[k]]

\* header with new_channel appended where lines 192-211 append it; the trigger
\* goes to spike_triggers in the signal_type = 0 branch only.
AppendChannel(h, dest, new_channel, new_trigger_channel) ==
    [k \in DOMAIN h |->
        IF k = dest THEN Append(h[k], new_channel)
        ELSE IF k = "spike_triggers" /\ dest = "amplifier_channels"
             THEN Append(h[k], new_trigger_channel)
        ELSE h[k]]

\* Lines 214-218: the five count fields.
Summary(h) ==
    [k \in {CountKey(c) : c \in ChannelCollections} |->
        LET c == CHOOSE c \in ChannelCollections : CountKey(c) = k IN Len(h[c])]

InitHeader ==
    /\ hpc = "start"
    /\ header = <<>>
    /\ number_of_signal_groups = 0
    /\ signal_group = 0
    /\ channels_left = 0
    /\ herr = ""
    /\ last_channel = <<>>
    /\ n_records = 0 /\ n_discarded = 0
    /\ sum_all_counts = 0 /\ sum_live_counts = 0 /\ negative_count = FALSE
    /\ QStringIdle /\ LoadIdle

\* Lines 49-148: the magic number, the scalar fields, the notes, the six empty
\* collections and the number of signal groups.
ReadPreamble ==
    /\ hpc = "start"
    /\ \E magic_ok \in BOOLEAN, step \in StimStepSizes, groups \in GroupCounts :
         IF ~magic_ok
         THEN /\ hpc' = "failed" /\ herr' = BadMagic
              /\ UNCHANGED <<header, number_of_signal_groups>>
         ELSE /\ header' = [k \in ChannelCollections \cup {"spike_triggers"} |-> <<>>]
                           @@ [stim_step_size |-> step]
              /\ number_of_signal_groups' = groups
              /\ hpc' = "groups"
              /\ herr' = ""
    /\ UNCHANGED <<signal_group, channels_left, last_channel, n_records, n_discarded,
                   sum_all_counts, sum_live_counts, negative_count, qvars, lvars>>

\* Lines 151-160: one group record.
ReadGroup ==
    /\ hpc = "groups"
    /\ signal_group < number_of_signal_groups
    /\ \E signal_group_enabled \in EnabledFlags,
          signal_group_num_channels \in ChannelCounts :
         /\ signal_group' = signal_group + 1
         /\ sum_all_counts' = sum_all_counts + signal_group_num_channels
         /\ negative_count' = (negative_count \/ signal_group_num_channels < 0)
         /\ sum_live_counts' = sum_live_counts +
                IF signal_group_enabled > 0 /\ signal_group_num_channels > 0
                THEN signal_group_num_channels ELSE 0
         /\ IF GroupIsRead(signal_group_enabled, signal_group_num_channels)
            THEN /\ n_records + signal_group_num_channels <= MaxRecords
                 /\ channels_left' = signal_group_num_channels
                 /\ hpc' = "channels"
            ELSE /\ UNCHANGED <<channels_left, hpc>>
    /\ UNCHANGED <<header, number_of_signal_groups, herr, last_channel, n_records,
                   n_discarded, qvars, lvars>>

\* Lines 161-211: one channel record, its trigger record and its classification.
ReadChannel ==
    /\ hpc = "channels"
    /\ \E signal_type \in SignalTypes, channel_enabled \in EnabledFlags :
         LET id   == n_records + 1
             new_channel == [id |-> id, port_number |-> signal_group,
                             signal_type |-> signal_type]
             new_trigger_channel == [id |-> id]
             dest == SignalDestination(signal_type)
         IN
         /\ n_records' = id
         /\ last_channel' = [id |-> id, signal_type |-> signal_type,
                             channel_enabled |-> channel_enabled]
         /\ IF ~ChannelIsEnabled(channel_enabled)
            THEN /\ n_discarded' = n_discarded + 1
                 /\ UNCHANGED <<header, herr>>
                 /\ channels_left' = channels_left - 1
                 /\ hpc' = IF channels_left' = 0 THEN "groups" ELSE "channels"
            ELSE IF dest \in ChannelCollections
            THEN /\ header' = AppendChannel(header, dest, new_channel,
                                            new_trigger_channel)
                 /\ UNCHANGED <<n_discarded, herr>>
                 /\ channels_left' = channels_left - 1
                 /\ hpc' = IF channels_left' = 0 THEN "groups" ELSE "channels"
            ELSE /\ herr' = dest
                 /\ hpc' = "failed"
                 /\ UNCHANGED <<header, n_discarded, channels_left>>
    /\ UNCHANGED <<number_of_signal_groups, signal_group, sum_all_counts,
                   sum_live_counts, negative_count, qvars, lvars>>

\* Lines 214-220: the loop of line 151 is over; the counts are set and the
\* header is returned.
Summarize ==
    /\ hpc = "groups"
    /\ signal_group >= number_of_signal_groups
    /\ header' = header @@ Summary(header)
    /\ hpc' = "done"
    /\ UNCHANGED <<number_of_signal_groups, signal_group, channels_left, herr,
                   last_channel, n_records, n_discarded, sum_all_counts,
                   sum_live_counts, negative_count, qvars, lvars>>

\* A read past the end of the stream (struct.error) or a string whose length
\* _read_qstring refuses, in the group or channel record about to be decoded.
ReadFails ==
    /\ hpc \in {"groups", "channels"}
    /\ hpc = "groups" => signal_group < number_of_signal_groups
    /\ \E e \in {MalformedLength, StructError} : herr' = e
    /\ hpc' = "failed"
    /\ UNCHANGED <<header, number_of_signal_groups, signal_group, channels_left,
                   last_channel, n_records, n_discarded, sum_all_counts,
                   sum_live_counts, negative_count, qvars, lvars>>

NextHeader == ReadPreamble \/ ReadGroup \/ ReadChannel \/ Summarize \/ ReadFails

SpecHeader == InitHeader /\ [][NextHeader]_vars

\* ------------------------------------------------- properties, _read_header
\* The collections that hold the channel record numbered id, and how often.
HoldersOf(id) ==
    {c \in ChannelCollections : \E i \in DOMAIN header[c] : header[c][i].id = id}

TimesHeld(id) ==
    LET Hits(c) == Cardinality({i \in DOMAIN header[c] : header[c][i].id = id})
    IN  Hits("amplifier_channels") + Hits("board_adc_channels")
        + Hits("board_dac_channels") + Hits("board_dig_in_channels")
        + Hits("board_dig_out_channels")

\* The collection the format assigns to a signal-class code ("" for none).
ClassCollection(code) ==
    IF code = 0 THEN "amplifier_channels"
    ELSE IF code = 3 THEN "board_adc_channels"
    ELSE IF code = 4 THEN "board_dac_channels"
    ELSE IF code = 5 THEN "board_dig_in_channels"
    ELSE IF code = 6 THEN "board_dig_out_channels"
    ELSE ""

NumClassified ==
    Len(header["amplifier_channels"]) + Len(header["board_adc_channels"])
    + Len(header["board_dac_channels"]) + Len(header["board_dig_in_channels"])
    + Len(header["board_dig_out_channels"])

\* C1: an enabled channel record (channel-enabled flag nonzero) is appended
\* according to its signal-class code alone: code 0 to amplifier_channels with
\* its trigger record to spike_triggers, codes 3, 4, 5, 6 to board_adc_channels,
\* board_dac_channels, board_dig_in_channels, board_dig_out_channels; codes 1 and
\* 2 end the decode with UnsupportedSignalClass and any other code with
\* UnknownSignalClass. A classified channel is held by exactly one collection,
\* exactly once, and every channel a collection holds has that collection's code.
C1_ClassificationByCode ==
    /\ (header # <<>>) =>
          \A c \in ChannelCollections : \A i \in DOMAIN header[c] :
              /\ ClassCollection(header[c][i].signal_type) = c
              /\ HoldersOf(header[c][i].id) = {c}
              /\ TimesHeld(header[c][i].id) = 1
    /\ (last_channel # <<>> /\ last_channel.channel_enabled # 0) =>
          LET code == last_channel.signal_type
              id   == last_channel.id
          IN  /\ code \in {0, 3, 4, 5, 6} =>
                    /\ HoldersOf(id) = {ClassCollection(code)}
                    /\ TimesHeld(id) = 1
                    /\ LET coll == header[ClassCollection(code)]
                       IN  coll[Len(coll)].id = id
              /\ code = 0 =>
                    LET trig == header["spike_triggers"]
                    IN  Len(trig) > 0 /\ trig[Len(trig)].id = id
              /\ code # 0 =>
                    \A i \in DOMAIN header["spike_triggers"] :
                        header["spike_triggers"][i].id # id
              /\ code \in {1, 2} =>
                    /\ hpc = "failed" /\ herr = UnsupportedSignalClass
                    /\ HoldersOf(id) = {}
              /\ code \notin 0 .. 6 =>
                    /\ hpc = "failed" /\ herr = UnknownSignalClass
                    /\ HoldersOf(id) = {}

\* C1 witness: a returned header for which an amplifier channel, a digital-input
\* channel and a digital-output channel were decoded, the last of them enabled
\* by a negative flag.
C1_Witness ==
    /\ hpc = "done"
    /\ Len(header["amplifier_channels"]) = 1
    /\ Len(header["board_dig_in_channels"]) = 1
    /\ Len(header["board_dig_out_channels"]) = 1
    /\ last_channel.channel_enabled = -1

\* C8 as stated: for a header decoded successfully, the channels appended to the
\* five collections plus the channel records discarded as disabled number the
\* sum of the channel-count fields of all group records of the stream, the
\* groups whose enabled flag is 0 included. (Stated for the streams none of
\* whose channel-count fields is negative.)
C8_CountsAllGroups ==
    (hpc = "done" /\ ~negative_count)
        => NumClassified + n_discarded = sum_all_counts

\* C8 amended: for a header decoded successfully, the channels appended to the
\* five collections plus the channel records discarded as disabled number the
\* sum of the channel-count fields over the group records whose enabled flag
\* and channel count are both positive; every other group contributes no channel.
C8_CountsReadGroups ==
    hpc = "done" => NumClassified + n_discarded = sum_live_counts

\* C8 witness: a returned header with a classified channel and a discarded one,
\* after a skipped group whose channel-count field was positive.
C8_Witness ==
    /\ hpc = "done"
    /\ NumClassified >= 1 /\ n_discarded >= 1
    /\ ~negative_count
    /\ sum_all_counts > sum_live_counts

\* C9: after every channel record, and in every returned header, spike_triggers
\* is as long as amplifier_channels and its i-th trigger was decoded with the
\* i-th amplifier channel; in a returned header each of the five num_* fields
\* is the length of its collection.
C9_TriggersParallelCountsMatch ==
    /\ (header # <<>>) =>
          /\ Len(header["spike_triggers"]) = Len(header["amplifier_channels"])
          /\ \A i \in DOMAIN header["spike_triggers"] :
                 /\ i \in DOMAIN header["amplifier_channels"]
                 /\ header["spike_triggers"][i].id = header["amplifier_channels"][i].id
    /\ (hpc = "done") =>
          /\ header["num_amplifier_channels"] = Len(header["amplifier_channels"])
          /\ header["num_board_adc_channels"] = Len(header["board_adc_channels"])
          /\ header["num_board_dac_channels"] = Len(header["board_dac_channels"])
          /\ header["num_board_dig_in_channels"] = Len(header["board_dig_in_channels"])
          /\ header["num_board_dig_out_channels"] = Len(header["board_dig_out_channels"])

\* C9 witness: a returned header with two amplifier channels around a channel
\* of another class.
C9_Witness ==
    /\ hpc = "done"
    /\ Len(header["amplifier_channels"]) = 2
    /\ Len(header["board_adc_channels"]) = 1
    /\ header["amplifier_channels"][1].id = 1
    /\ header["amplifier_channels"][2].id = 3

\* ========================================================== _read_qstring
\* Byte values the files are built from: the low byte of the first length
\* prefix, the three higher bytes of it, and the bytes that follow.
PrefixLowBytes  == (0 .. (MaxPayload + 2)) \cup {255}
PrefixHighBytes == {0, 255}
PayloadBytes    == {0, 1, 65}

SeqsUpTo(S, n) == UNION {[1 .. k -> S] : k \in 0 .. n}

\* struct.unpack("<H", b): a little-endian 16-bit word.
UnpackH(b) == b[1] + 256 * b[2]

\* struct.unpack("<I", b) as its two 16-bit halves, low half first: the value
\* is lo + 65536 * hi (kept in halves so that 0xFFFFFFFF stays in range).
UnpackI(b) == [lo |-> UnpackH(<<b[1], b[2]>>), hi |-> UnpackH(<<b[3], b[4]>>)]

\* `length == int("ffffffff", 16)` (line 18).
IsNullString(length) == length.lo = 65535 /\ length.hi = 65535

\* `length > (os.fstat(fid.fileno()).st_size - fid.tell() + 1)` (line 21), for
\* files shorter than 65536 bytes; tell is the position after the prefix.
LengthTooLong(length, st_size, tell) ==
    length.hi > 0 \/ length.lo > (st_size - tell + 1)

\* `int(length / 2)` (line 26).
WordCount(length) == length.lo \div 2

\* fid.read(n) at position tell: the bytes it returns (fewer than n at the end).
FileRead(bytes, tell, n) ==
    SubSeq(bytes, tell + 1, IF tell + n <= Len(bytes) THEN tell + n ELSE Len(bytes))

\* Lines 28-38: the 16-bit words of the string, each a character.
Words(bytes, tell, n) ==
    [i \in 1 .. n |-> UnpackH(FileRead(bytes, tell + 2 * (i - 1), 2))]

InitQString ==
    /\ qpc = "ready"
    /\ \E b1 \in PrefixLowBytes, b2 \in PrefixHighBytes, b3 \in PrefixHighBytes,
          b4 \in PrefixHighBytes, payload \in SeqsUpTo(PayloadBytes, MaxPayload) :
         fbytes = <<b1, b2, b3, b4>> \o payload
    /\ ftell = 0
    /\ qcall = <<>>
    /\ HeaderIdle /\ LoadIdle

\* One call of _read_qstring (lines 17-38) at the current position.
ReadQString ==
    /\ qpc = "ready"
    /\ LET st_size == Len(fbytes)
           prefix  == FileRead(fbytes, ftell, 4)
           tell    == ftell + Len(prefix)
       IN
       IF Len(prefix) < 4
       THEN \* struct.unpack("<I", ...) of a short read
            /\ qpc' = "failed"
            /\ ftell' = tell
            /\ qcall' = [start |-> ftell, prefix |-> <<>>, outcome |-> StructError,
                         result |-> <<>>]
       ELSE
       LET length == UnpackI(prefix) IN
       IF IsNullString(length)
       THEN /\ qpc' = "ready"
            /\ ftell' = tell
            /\ qcall' = [start |-> ftell, prefix |-> length, outcome |-> "ok",
                         result |-> <<>>]
       ELSE IF LengthTooLong(length, st_size, tell)
       THEN /\ qpc' = "failed"
            /\ ftell' = tell
            /\ qcall' = [start |-> ftell, prefix |-> length,
                         outcome |-> MalformedLength, result |-> <<>>]
       ELSE IF tell + 2 * WordCount(length) > st_size
       THEN \* the last fid.read(2) is short: struct.unpack("<H", ...) raises
            /\ qpc' = "failed"
            /\ ftell' = st_size
            /\ qcall' = [start |-> ftell, prefix |-> length, outcome |-> StructError,
                         result |-> <<>>]
       ELSE /\ qpc' = "ready"
            /\ ftell' = tell + 2 * WordCount(length)
            /\ qcall' = [start |-> ftell, prefix |-> length, outcome |-> "ok",
                         result |-> Words(fbytes, tell, WordCount(length))]
    /\ UNCHANGED <<fbytes, hvars, lvars>>

NextQString == ReadQString

SpecQString == InitQString /\ [][NextQString]_vars

\* ------------------------------------------------ properties, _read_qstring
\* The last call read a length prefix that is not the null-string sentinel.
ReadByteCount ==
    /\ qcall # <<>>
    /\ qcall.prefix # <<>>
    /\ ~(qcall.prefix.lo = 65535 /\ qcall.prefix.hi = 65535)

\* Bytes of the file after the prefix of the last call.
RemainingAfterPrefix == Len(fbytes) - (qcall.start + 4)

\* C2: a length prefix that is not the sentinel and exceeds the bytes remaining
\* after the 4-byte prefix makes _read_qstring fail with MalformedLength; at no
\* cursor position is a string decoded whose byte count is larger than the
\* bytes that remain.
C2_TooLongIsRefused ==
    (ReadByteCount /\ (qcall.prefix.hi > 0 \/ qcall.prefix.lo > RemainingAfterPrefix))
        => qcall.outcome = MalformedLength

\* C3: a successful call advances the cursor by exactly 4 bytes for the
\* sentinel prefix, returning the empty string, and by exactly 4 + byte_count
\* bytes for every other accepted byte_count, odd ones included, returning
\* byte_count / 2 characters. (Stated for the byte counts that fit in the bytes
\* remaining, which every reading of "accepted" includes.)
C3_CursorAdvance ==
    (qcall # <<>> /\ qcall.outcome = "ok") =>
        IF qcall.prefix.lo = 65535 /\ qcall.prefix.hi = 65535
        THEN ftell - qcall.start = 4 /\ qcall.result = <<>>
        ELSE (qcall.prefix.hi = 0 /\ qcall.prefix.lo <= RemainingAfterPrefix) =>
                 /\ ftell - qcall.start = 4 + qcall.prefix.lo
                 /\ Len(qcall.result) = qcall.prefix.lo \div 2

\* =============================================================== load_rhs
\* file_path.stem of the buffers a folder may hold, each as its "-"-separated
\* fields, in the order sorted() puts the paths.
StemOrder ==
    << <<"amp", "A", "000">>, <<"aux", "A", "000">>, <<"board", "ADC", "1">>,
       <<"dc", "A", "000">>, <<"digital", "in", "01">>, <<"stim", "A", "000">> >>

Stems == {StemOrder[i] : i \in DOMAIN StemOrder}

\* Raw 16-bit cells of a buffer.
RawValues == {0, 5, 261, 32768}

\* `sorted(file_paths)` (line 279).
SortedPaths(S) == SelectSeq(StemOrder, LAMBDA stem : stem \in S)

\* `file_path.stem.split("-")[0]` (line 280).
StemPrefix(stem) == Head(stem)

\* Arithmetic of a numpy uint16 array with a Python int that fits in uint16:
\* the result stays uint16 and wraps.
U16(x) == x % 65536

\* A 16-bit cell read with dtype=np.int16.
I16(raw) == IF raw >= 32768 THEN raw - 65536 ELSE raw

\* np.bitwise_and(signal, 255) and np.bitwise_and(signal, 256).
And255(raw) == raw % 256
And256(raw) == ((raw \div 256) % 2) * 256

\* The value computed for one cell. The float factors are kept exact by the
\* unit of the result: amp (line 284) in units of 0.001 microvolt, board (line
\* 288) in units of 0.0000001 volt, dc (line 292) in units of 0.01 millivolt,
\* stim (lines 297-299) in the unit of stim_step_size.
ConvertCell(signal_type, raw, step) ==
    CASE signal_type = "amp"   -> I16(raw) * 195
      [] signal_type = "board" -> U16(raw - 32768) * 3125
      [] signal_type = "dc"    -> U16(raw - 512) * 1923
      [] signal_type = "stim"  ->
            LET current == And255(raw) * step
                sign    == U16(1 - (And256(raw) \div 128))
            IN  current * sign

\* The signal types the if/elif chain of lines 282-299 has a branch for.
HandledTypes == {"amp", "board", "dc", "stim"}

\* `signal` before its first assignment.
Unbound == <<>>

InitLoad ==
    /\ lpc = "loop"
    /\ \E S \in SUBSET Stems :
         /\ Cardinality(S) <= MaxFiles
         /\ \E raw \in [S -> UNION {[1 .. n -> RawValues] : n \in 1 .. MaxSamples}] :
              file_paths = [i \in 1 .. Cardinality(S) |->
                               [stem |-> SortedPaths(S)[i],
                                raw  |-> raw[SortedPaths(S)[i]]]]
    /\ stim_step_size \in StimStepSizes
    /\ next_file = 1
    /\ signal = Unbound
    /\ recordings = <<>>
    /\ lerr = ""
    /\ HeaderIdle /\ QStringIdle

\* One iteration of the loop of lines 279-301.
ProcessFile ==
    /\ lpc = "loop"
    /\ next_file <= Len(file_paths)
    /\ LET file_path   == file_paths[next_file]
           signal_type == StemPrefix(file_path.stem)
       IN
       IF signal_type \in HandledTypes
       THEN /\ signal' = [src  |-> file_path.stem,
                          data |-> [i \in DOMAIN file_path.raw |->
                                       ConvertCell(signal_type, file_path.raw[i],
                                                   stim_step_size)]]
            /\ recordings' = [k \in DOMAIN recordings \cup {file_path.stem} |->
                                 IF k = file_path.stem THEN signal' ELSE recordings[k]]
            /\ next_file' = next_file + 1
            /\ UNCHANGED <<lpc, lerr>>
       ELSE IF signal = Unbound
       THEN \* line 301 reads `signal` before any assignment
            /\ lpc' = "failed"
            /\ lerr' = "UnboundLocalError"
            /\ UNCHANGED <<signal, recordings, next_file>>
       ELSE \* line 301 stores the array of the iteration before
            /\ recordings' = [k \in DOMAIN recordings \cup {file_path.stem} |->
                                 IF k = file_path.stem THEN signal ELSE recordings[k]]
            /\ next_file' = next_file + 1
            /\ UNCHANGED <<signal, lpc, lerr>>
    /\ UNCHANGED <<file_paths, stim_step_size, hvars, qvars>>

\* Line 302: the loop is over.
Return ==
    /\ lpc = "loop"
    /\ next_file > Len(file_paths)
    /\ lpc' = "done"
    /\ UNCHANGED <<file_paths, stim_step_size, next_file, signal, recordings, lerr,
                   hvars, qvars>>

NextLoad == ProcessFile \/ Return

SpecLoad == InitLoad /\ [][NextLoad]_vars

\* ----------------------------------------------------- properties, load_rhs
\* The buffers of the call whose stem starts with the given field.
FilesOfClass(class) ==
    {i \in DOMAIN file_paths : Head(file_paths[i].stem) = class}

Stored(i) == file_paths[i].stem \in DOMAIN recordings

\* The prefixes the format gives a stream class to.
StreamClasses == {"amp", "board", "dc", "digital", "stim"}

\* C4: a stored `board` recording holds, for every raw cell, (raw - 32768) x
\* 0.0003125 with the difference signed: 0.0 for raw 32768 and -10.24 for raw 0
\* (here in units of 0.0000001 volt: -102400000).
C4_BoardVolts ==
    \A i \in FilesOfClass("board") : Stored(i) =>
        LET out == recordings[file_paths[i].stem].data
            raw == file_paths[i].raw
        IN  /\ DOMAIN out = DOMAIN raw
            /\ \A j \in DOMAIN raw :
                   /\ out[j] = (raw[j] - 32768) * 3125
                   /\ raw[j] = 32768 => out[j] = 0
                   /\ raw[j] = 0 => out[j] = -102400000

\* C5: a stored `stim` recording holds, for every raw cell, magnitude x
\* stim_step_size x sign with magnitude = raw & 0xFF and sign = +1 when bit 8 is
\* clear, -1 when it is set: with step 10, +50 for raw 5 and -50 for raw 261.
C5_StimSignMagnitude ==
    \A i \in FilesOfClass("stim") : Stored(i) =>
        LET out == recordings[file_paths[i].stem].data
            raw == file_paths[i].raw
        IN  /\ DOMAIN out = DOMAIN raw
            /\ \A j \in DOMAIN raw :
                   LET magnitude == raw[j] % 256
                       sign == IF (raw[j] \div 256) % 2 = 0 THEN 1 ELSE -1
                   IN  /\ out[j] = magnitude * stim_step_size * sign
                       /\ (stim_step_size = 10 /\ raw[j] = 5) => out[j] = 50
                       /\ (stim_step_size = 10 /\ raw[j] = 261) => out[j] = -50

\* C6: a buffer whose stem prefix is none of amp, board, dc, digital, stim is
\* rejected alone: no recording is ever stored under its name, and when the
\* call is over, however it ended, every sibling buffer of a known class has
\* its recording.
C6_UnrecognizedRejectedAlone ==
    /\ \A i \in DOMAIN file_paths :
           Head(file_paths[i].stem) \notin StreamClasses => ~Stored(i)
    /\ (/\ lpc \in {"done", "failed"}
        /\ \E i \in DOMAIN file_paths : Head(file_paths[i].stem) \notin StreamClasses)
           => \A i \in DOMAIN file_paths :
                  Head(file_paths[i].stem) \in StreamClasses => Stored(i)

\* C7: what load_rhs stores under the name of a `digital` buffer is that
\* buffer's own cells as unsigned 16-bit values, unscaled: every element is the
\* raw value of the same position.
C7_DigitalPassThrough ==
    \A i \in FilesOfClass("digital") : Stored(i) =>
        LET out == recordings[file_paths[i].stem].data
            raw == file_paths[i].raw
        IN  /\ DOMAIN out = DOMAIN raw
            /\ \A j \in DOMAIN raw : out[j] = raw[j]

\* C10: the recording stored under a buffer's name is computed from that
\* buffer's own cells and name and the header scalars, as when the buffer is
\* processed alone, and is never the array computed for another buffer.
C10_RecordingFromOwnBuffer ==
    \A i \in DOMAIN file_paths : Stored(i) =>
        /\ recordings[file_paths[i].stem].src = file_paths[i].stem
        /\ \A k \in DOMAIN file_paths :
               (k # i /\ Stored(k)) =>
                   recordings[file_paths[k].stem].src # recordings[file_paths[i].stem].src

====
